---- MODULE Spec2Model ----
(***************************************************************************)
(* Model of src-tauri/src/lib.rs of Pake: the launch-URL matcher           *)
(* (extract_url_arg), the single-instance callback, the setup closure with *)
(* its deferred tasks, the window-event handler (close policy) and the     *)
(* run-event handler (macOS dock reactivation).                            *)
(*                                                                         *)
(* Strings are sequences of one-character strings, so that strip_prefix,   *)
(* starts_with, split and format! are computed and not assumed.            *)
(* Option<T> is a sequence of length 0 (None) or 1 (Some).                 *)
(***************************************************************************)
EXTENDS Integers, Sequences, FiniteSets, TLC

VARIABLES
    cfg,            \* pake_config.windows[0] and pake_config, read once in run_app
    phase,          \* "starting" | "matched" | "running" | "exited" | "crashed"
    exit_code,      \* Option: <<>> while alive, <<0>> after std::process::exit(0)
    args,           \* std::env::args() of this process
    found,          \* result of extract_url_arg on the initial launch
    WINDOW_COUNTER, \* static WINDOW_COUNTER: AtomicUsize
    windows,        \* label -> window state, for every window that exists
    showTask,       \* position of the delayed-show task spawned by setup
    navTask,        \* position of the launch-URL navigation task spawned by setup
    hideTasks,      \* one record per handled close request with hide_on_close
    callbacks,      \* in-flight single-instance callbacks
    launches,       \* number of second-instance launches received so far
    issued,         \* sequence of window ids handed out by fetch_add, in order
    cb_ops,         \* window and operations of the latest single-instance callback
    ops_can_fail,   \* whether operations on windows can fail in this run
    tray_shown,     \* whether the main window has been summoned from the tray
    closes,         \* number of CloseRequested events handled
    prevented       \* number of api.prevent_close() calls

vars == <<cfg, phase, exit_code, args, found, WINDOW_COUNTER, windows, showTask,
          navTask, hideTasks, callbacks, launches, issued, cb_ops, ops_can_fail,
          tray_shown, closes, prevented>>

----------------------------------------------------------------------------
(* Bounds of the model.                                                    *)

MaxArgPieces == 2   \* pieces an argument of the matcher check is built from
MaxCfgPieces == 2   \* pieces a config_url of the matcher check is built from
MaxLaunches == 2    \* second-instance launches per run
MaxCloses == 1      \* close requests per run
MaxPathLen == 2     \* characters after the host in a launch URL of the script check

----------------------------------------------------------------------------
(* Strings.                                                                *)

None == <<>>
Some(x) == <<x>>

HTTPS == <<"h", "t", "t", "p", "s", ":", "/", "/">>
HTTP == <<"h", "t", "t", "p", ":", "/", "/">>

Min(S) == CHOOSE x \in S : \A y \in S : x <= y

starts_with(s, p) == Len(s) >= Len(p) /\ SubSeq(s, 1, Len(p)) = p

strip_prefix(s, p) ==
    IF starts_with(s, p) THEN Some(SubSeq(s, Len(p) + 1, Len(s))) ELSE None

\* s.split('/').next(): the part before the first '/', the whole of s if
\* there is none; split always yields a first item.
split_next(s) ==
    LET slashes == {i \in 1..Len(s) : s[i] = "/"}
    IN  Some(IF slashes = {} THEN s ELSE SubSeq(s, 1, Min(slashes) - 1))

or_else(o, p) == IF o # None THEN o ELSE p
unwrap_or(o, d) == IF o # None THEN o[1] ELSE d

\* strip_prefix("https://").or_else(strip_prefix("http://")).and_then(split.next)
host_of(s) ==
    LET stripped == or_else(strip_prefix(s, HTTPS), strip_prefix(s, HTTP))
    IN  IF stripped = None THEN None ELSE split_next(stripped[1])

\* The allowed host without the split at the first '/'.
allowed_host_unsplit(config_url) ==
    unwrap_or(or_else(strip_prefix(config_url, HTTPS), strip_prefix(config_url, HTTP)), <<>>)

allowed_host_of(config_url) == unwrap_or(host_of(config_url), <<>>)

\* A closure that never accepts an empty host.
arg_matches_nonempty(arg, allowed_host) ==
    IF starts_with(arg, HTTPS) \/ starts_with(arg, HTTP)
    THEN LET host == host_of(arg)
         IN  IF host # None THEN host[1] = allowed_host /\ host[1] # <<>> ELSE FALSE
    ELSE FALSE

\* The closure handed to find.
arg_matches(arg, allowed_host) ==
    IF starts_with(arg, HTTPS) \/ starts_with(arg, HTTP)
    THEN LET host == host_of(arg)
         IN  IF host # None THEN host[1] = allowed_host ELSE FALSE
    ELSE FALSE

\* iter().find(..): the first element of s, from index i on, the closure accepts.
RECURSIVE find_from(_, _, _)
find_from(s, i, allowed_host) ==
    IF i > Len(s) THEN None
    ELSE IF arg_matches(s[i], allowed_host) THEN Some(s[i])
    ELSE find_from(s, i + 1, allowed_host)

\* A matcher that scans from the first element on (the .skip(1) left out).
extract_url_arg_noskip(a, config_url) ==
    find_from(a, 1, allowed_host_of(config_url))

\* args.iter().skip(1).find(..).cloned(); sequences are 1-based, so the
\* element the code calls element 0 is a[1].
extract_url_arg(a, config_url) ==
    find_from(a, 2, allowed_host_of(config_url))

----------------------------------------------------------------------------
(* Inputs of the matcher check.                                            *)

Pieces == {HTTPS, HTTP, <<"a">>, <<"b">>, <<"/">>}

\* The strings made of at most n pieces.
RECURSIVE StringsOf(_)
StringsOf(n) ==
    IF n = 0 THEN {<<>>}
    ELSE LET shorter == StringsOf(n - 1)
         IN  shorter \cup {s \o p : s \in shorter, p \in Pieces}

EXE == <<"e", "x", "e">>
UrlA == HTTPS \o <<"a">>
UrlAPath == HTTPS \o <<"a", "/", "b">>
UrlAPlain == HTTP \o <<"a", "/", "a">>
UrlBPath == HTTPS \o <<"b", "/", "a">>
UrlNoHost == HTTP
UrlNoHostPath == HTTP \o <<"/", "a">>

LongUrls == {UrlAPath, UrlAPlain, UrlBPath, UrlNoHostPath, HTTPS \o <<"a", "b", "/">>}

ArgPool == StringsOf(MaxArgPieces) \cup LongUrls
CfgPool == StringsOf(MaxCfgPieces) \cup LongUrls

\* Argument lists of the matcher check: empty, or an element 0 (the executable
\* path, or a URL put there) followed by at most one argument of the pool and
\* then at most one of the long URLs.
MatcherArgs ==
    {<<>>}
    \cup {<<e0>> : e0 \in {EXE, UrlAPath}}
    \cup {<<e0, x>> : e0 \in {EXE, UrlAPath}, x \in ArgPool}
    \cup {<<e0, x, y>> : e0 \in {EXE, UrlAPath}, x \in ArgPool, y \in LongUrls \cup {UrlA}}

----------------------------------------------------------------------------
(* Windows.                                                                *)

PRIMARY == <<"p", "a", "k", "e">>   \* the label set_window gives the main window

DigitChars == <<"0", "1", "2", "3", "4", "5", "6", "7", "8", "9">>

\* usize's Display: decimal digits, most significant first.
RECURSIVE to_string(_)
to_string(n) ==
    IF n < 10 THEN <<DigitChars[n + 1]>>
    ELSE to_string(n \div 10) \o <<DigitChars[(n % 10) + 1]>>

\* format!("pake-{}", window_id)
window_label(window_id) == PRIMARY \o <<"-">> \o to_string(window_id)

\* fetch_add(1) that adds nothing.
fetch_add_stuck(counter) == counter

\* A counter one bit wide.
fetch_add_narrow(counter) == (counter + 1) % 2

\* The value WINDOW_COUNTER holds after fetch_add(1, SeqCst); fetch_add
\* returns the value before.  (usize wraps at 2^64, which MaxLaunches keeps
\* out of reach.)
fetch_add(counter) == counter + 1

Platforms == {"macos", "linux", "windows"}

OtherSize == <<3, 3>>   \* a restored geometry that is not the configured one

\* The main window as app::window::set_window leaves it: built hidden at the
\* configured URL, fullscreen as configured, with the geometry the
\* window-state plugin restores (size), which need not be the configured one.
set_window(size) ==
    [visible |-> FALSE, minimized |-> FALSE, fullscreen |-> cfg.fullscreen,
     focused |-> FALSE, url |-> cfg.url, size |-> size]

\* A window built at the main window's current size.
build_window_like_primary(url) ==
    [visible |-> TRUE, minimized |-> FALSE, fullscreen |-> FALSE,
     focused |-> FALSE, url |-> url,
     size |-> IF PRIMARY \in DOMAIN windows THEN windows[PRIMARY].size ELSE OtherSize]

\* WebviewWindowBuilder::new(app, label, External(url)).title("")
\*     .inner_size(window_width, window_height).build():
\* the builder's defaults otherwise (visible, not minimized, not fullscreen).
build_window(url) ==
    [visible |-> TRUE, minimized |-> FALSE, fullscreen |-> FALSE,
     focused |-> FALSE, url |-> url, size |-> <<cfg.width, cfg.height>>]

\* Setting one attribute of window w; a failed operation changes nothing.
WindowOp(ws, w, field, value, ok) ==
    IF ok /\ w \in DOMAIN ws THEN [ws EXCEPT ![w][field] = value] ELSE ws

\* Whether a window operation succeeds.
Outcomes == IF ops_can_fail THEN BOOLEAN ELSE {TRUE}

\* One window operation, by name.
ApplyOp(ws, w, op, ok) ==
    IF op = "unminimize" THEN WindowOp(ws, w, "minimized", FALSE, ok)
    ELSE IF op = "minimize" THEN WindowOp(ws, w, "minimized", TRUE, ok)
    ELSE IF op = "show" THEN WindowOp(ws, w, "visible", TRUE, ok)
    ELSE IF op = "hide" THEN WindowOp(ws, w, "visible", FALSE, ok)
    ELSE IF op = "focus" THEN WindowOp(ws, w, "focused", TRUE, ok)
    ELSE ws

\* Operations ops on window w one after the other; oks[i] is the outcome of
\* the i-th, which the callers discard (let _ = ...).
RECURSIVE ApplyOps(_, _, _, _)
ApplyOps(ws, w, ops, oks) ==
    IF ops = <<>> THEN ws
    ELSE ApplyOps(ApplyOp(ws, w, Head(ops), Head(oks)), w, Tail(ops), Tail(oks))

NoOps == [w |-> <<>>, ops |-> <<>>]

\* url.parse::<Url>(): for http and https the slashes after the scheme are
\* skipped, the authority runs to the next '/', and the parse fails on an
\* empty host or a port that is not a number.
skip_slashes(s) ==
    LET others == {i \in 1..Len(s) : s[i] # "/"}
    IN  IF others = {} THEN <<>> ELSE SubSeq(s, Min(others), Len(s))

url_parse_ok(url) ==
    LET stripped == or_else(strip_prefix(url, HTTPS), strip_prefix(url, HTTP))
    IN  /\ stripped # None
        /\ LET authority == split_next(skip_slashes(stripped[1]))[1]
               colons == {i \in 1..Len(authority) : authority[i] = ":"}
               host == IF colons = {} THEN authority
                       ELSE SubSeq(authority, 1, Min(colons) - 1)
               port == IF colons = {} THEN <<>>
                       ELSE SubSeq(authority, Min(colons) + 1, Len(authority))
           IN  host # <<>> /\ port = <<>>

QUOTE == "'"
BACKSLASH == "\\"

\* str::replace(from, to) for a one-character pattern.
RECURSIVE replace(_, _, _)
replace(s, from, to) ==
    IF s = <<>> THEN <<>>
    ELSE (IF Head(s) = from THEN to ELSE <<Head(s)>>) \o replace(Tail(s), from, to)

\* "window.location.href = "
SCRIPT_HEAD ==
    <<"w", "i", "n", "d", "o", "w", ".", "l", "o", "c", "a", "t", "i", "o", "n", ".",
      "h", "r", "e", "f", " ", "=", " ">>

\* format!("window.location.href = '{}'", url.replace('\'', "\\'"))
nav_script(url) ==
    SCRIPT_HEAD \o <<QUOTE>> \o replace(url, QUOTE, <<BACKSLASH, QUOTE>>) \o <<QUOTE>>

\* What the webview's script engine makes of the script handed to eval.  In
\* a single-quoted literal a backslash takes the next character with it and
\* the first quote that is not taken closes the literal: literal_end is the
\* index of that quote from index i on, 0 when there is none.
RECURSIVE literal_end(_, _)
literal_end(s, i) ==
    IF i > Len(s) THEN 0
    ELSE IF s[i] = BACKSLASH THEN literal_end(s, i + 2)
    ELSE IF s[i] = QUOTE THEN i
    ELSE literal_end(s, i + 1)

\* The character an escape sequence stands for.
escaped(c) == IF c = "b" THEN "BS" ELSE IF c = "t" THEN "TAB" ELSE c

RECURSIVE unescape(_)
unescape(s) ==
    IF s = <<>> THEN <<>>
    ELSE IF Head(s) = BACKSLASH /\ Len(s) >= 2
         THEN <<escaped(s[2])>> \o unescape(SubSeq(s, 3, Len(s)))
         ELSE <<Head(s)>> \o unescape(Tail(s))

\* window_clone.eval(&script): the value assigned to window.location.href,
\* None when the script does not run (a syntax error: the literal is not
\* closed, or something other than a comment follows it).
eval_href(script) ==
    LET open == Len(SCRIPT_HEAD) + 1
        end == literal_end(script, open + 1)
        rest == SubSeq(script, end + 1, Len(script))
    IN  IF end = 0 THEN None
        ELSE IF rest = <<>> \/ starts_with(rest, <<"/", "/">>)
             THEN Some(unescape(SubSeq(script, open + 1, end - 1)))
             ELSE None

\* let start_to_tray = windows[0].start_to_tray && show_system_tray
start_to_tray == cfg.start_to_tray /\ cfg.show_system_tray

----------------------------------------------------------------------------
(* Initial states.                                                         *)

\* Arguments of the process itself and of the launches forwarded to it.
InitialArgs == {<<EXE>>, <<EXE, UrlAPath>>}
SecondArgs == {<<EXE>>, <<EXE, UrlAPath>>, <<EXE, UrlBPath>>, <<UrlAPath>>,
               <<EXE, UrlNoHost>>}

\* Configured URLs: one with a host, one without a scheme (empty allowed host).
ConfigUrls == {UrlA \o <<"/">>, <<"a">>}

Configs ==
    [platform : Platforms, hide_on_close : BOOLEAN, show_system_tray : BOOLEAN,
     start_to_tray : BOOLEAN, multi_instance : BOOLEAN, fullscreen : BOOLEAN,
     url : ConfigUrls, width : {2}, height : {1}]

InitRest ==
    /\ phase = "starting"
    /\ exit_code = None
    /\ found = None
    /\ WINDOW_COUNTER = 1
    /\ windows = <<>>
    /\ showTask = "none"
    /\ navTask = "none"
    /\ hideTasks = <<>>
    /\ callbacks = {}
    /\ cb_ops = NoOps
    /\ tray_shown = FALSE
    /\ launches = 0
    /\ issued = <<>>
    /\ closes = 0
    /\ prevented = 0

Init ==
    /\ cfg \in Configs
    /\ ops_can_fail \in BOOLEAN
    /\ args \in InitialArgs
    /\ InitRest

Alive == phase \in {"starting", "running"}

----------------------------------------------------------------------------
(* .setup(move |app| { ... })                                              *)

\* The guard of the delayed-show task without the start_to_tray test.
spawns_show_task_always == TRUE
spawns_show_task == ~start_to_tray

Setup ==
    /\ phase = "starting"
    /\ \E trayOk, shortcutOk \in BOOLEAN :
        LET url == extract_url_arg(args, cfg.url)
        IN  /\ windows' = (PRIMARY :> set_window(OtherSize)) @@ windows
            /\ found' = url
            /\ navTask' = IF url # None THEN "sleep" ELSE "none"
            /\ IF trayOk /\ shortcutOk
               THEN /\ showTask' = IF spawns_show_task THEN "sleep" ELSE "none"
                    /\ phase' = "running"
               ELSE \* set_system_tray(..).unwrap() or set_global_shortcut(..).unwrap()
                    /\ showTask' = "none"
                    /\ phase' = "crashed"
    /\ UNCHANGED <<cfg, ops_can_fail, tray_shown, exit_code, args, WINDOW_COUNTER, hideTasks, callbacks, cb_ops,
                   launches, issued, closes, prevented>>

(* The delayed-show task: sleep(WINDOW_SHOW_DELAY); show().unwrap(); on     *)
(* Linux set_fullscreen(true).unwrap() and set_focus(), or sleep(30) and    *)
(* set_focus().                                                             *)
\* A show task that never enters fullscreen.
after_show_no_fullscreen == IF cfg.platform # "linux" THEN "done" ELSE "focus"

\* What follows show(): nothing but on Linux, where it is set_fullscreen(true)
\* if init_fullscreen and otherwise sleep(30) and set_focus().
after_show ==
    IF cfg.platform # "linux" THEN "done"
    ELSE IF cfg.fullscreen THEN "fullscreen" ELSE "focus"

ShowTaskShow ==
    /\ phase = "running" /\ showTask = "sleep"
    /\ \E ok \in Outcomes :
        /\ windows' = WindowOp(windows, PRIMARY, "visible", TRUE, ok)
        /\ showTask' = IF ~ok THEN "panicked" ELSE after_show
    /\ UNCHANGED <<cfg, ops_can_fail, tray_shown, phase, exit_code, args, found, WINDOW_COUNTER, navTask,
                   hideTasks, callbacks, cb_ops, launches, issued, closes, prevented>>

ShowTaskFullscreen ==
    /\ phase = "running" /\ showTask = "fullscreen"
    /\ \E ok \in Outcomes :
        /\ windows' = WindowOp(windows, PRIMARY, "fullscreen", TRUE, ok)
        /\ showTask' = IF ok THEN "focus" ELSE "panicked"
    /\ UNCHANGED <<cfg, ops_can_fail, tray_shown, phase, exit_code, args, found, WINDOW_COUNTER, navTask,
                   hideTasks, callbacks, cb_ops, launches, issued, closes, prevented>>

ShowTaskFocus ==
    /\ phase = "running" /\ showTask = "focus"
    /\ \E ok \in Outcomes :
        windows' = WindowOp(windows, PRIMARY, "focused", TRUE, ok)
    /\ showTask' = "done"
    /\ UNCHANGED <<cfg, ops_can_fail, tray_shown, phase, exit_code, args, found, WINDOW_COUNTER, navTask,
                   hideTasks, callbacks, cb_ops, launches, issued, closes, prevented>>

(* The launch-URL task: sleep(100); eval("window.location.href = '..'").    *)
NavTaskEval ==
    /\ phase = "running" /\ navTask = "sleep"
    /\ \E ok \in Outcomes :
        LET href == eval_href(nav_script(found[1]))
        IN  windows' = IF href # None
                       THEN WindowOp(windows, PRIMARY, "url", href[1], ok)
                       ELSE windows
    /\ navTask' = "done"
    /\ UNCHANGED <<cfg, ops_can_fail, tray_shown, phase, exit_code, args, found, WINDOW_COUNTER, showTask,
                   hideTasks, callbacks, cb_ops, launches, issued, closes, prevented>>

----------------------------------------------------------------------------
(* tauri_plugin_single_instance::init(move |app, args, _cwd| { ... })      *)

\* if !multi_instance { app_builder.plugin(single_instance ...) }
coordinator_always == TRUE
coordinator_installed == ~cfg.multi_instance

\* The window operations of the two branches of the callback, in order.
new_window_ops == <<"show", "focus">>
refocus_ops_show_first == <<"show", "unminimize", "focus">>
refocus_ops == <<"unminimize", "show", "focus">>

\* A lookup that prefers a window that is not visible.
get_webview_window_hidden(ws) ==
    LET hidden == {w \in DOMAIN ws : ~ws[w].visible}
    IN  IF hidden # {} THEN Some(CHOOSE w \in hidden : \A v \in hidden : Len(w) >= Len(v))
        ELSE IF PRIMARY \in DOMAIN ws THEN Some(PRIMARY) ELSE None

\* app.get_webview_window("pake")
get_webview_window(ws) == IF PRIMARY \in DOMAIN ws THEN Some(PRIMARY) ELSE None

\* A launch of another process with arguments a.  With the plugin installed
\* the callback runs in this process.  Callbacks may run side by side (the
\* plugin calls the closure from its own listener on some platforms); the
\* fetch_add is one atomic step, so a callback that found a URL is the step
\* up to the label (here) and the window step (CallbackWindow).  Without a
\* URL the callback looks the main window up and refocuses it.  Without the
\* plugin the other process runs on its own.
Launch(a) ==
    /\ Alive
    /\ launches < MaxLaunches
    /\ launches' = launches + 1
    /\ IF ~coordinator_installed
       THEN UNCHANGED <<WINDOW_COUNTER, issued, callbacks, windows, cb_ops>>
       ELSE LET url == extract_url_arg(a, cfg.url)
            IN  IF url # None
                THEN /\ WINDOW_COUNTER' = fetch_add(WINDOW_COUNTER)
                     /\ issued' = Append(issued, WINDOW_COUNTER)
                     /\ callbacks' = callbacks \cup
                            {[label |-> window_label(WINDOW_COUNTER), url |-> url[1]]}
                     /\ UNCHANGED <<windows, cb_ops>>
                ELSE /\ UNCHANGED <<WINDOW_COUNTER, issued, callbacks>>
                     /\ IF get_webview_window(windows) # None
                        THEN LET window == get_webview_window(windows)[1]
                             IN  /\ \E oks \in [1..Len(refocus_ops) -> Outcomes] :
                                        windows' = ApplyOps(windows, window, refocus_ops, oks)
                                 /\ cb_ops' = [w |-> window, ops |-> refocus_ops]
                        ELSE /\ UNCHANGED windows
                             /\ cb_ops' = NoOps
    /\ UNCHANGED <<cfg, ops_can_fail, tray_shown, phase, exit_code, args, found, showTask, navTask,
                   hideTasks, closes, prevented>>

SecondInstance == \E a \in SecondArgs : Launch(a)

\* WebviewUrl::External(url.parse().unwrap()), the builder, show, set_focus.
\* The unwrap panics inside the plugin's callback: the process aborts or only
\* the callback dies, depending on where the platform runs it.
CallbackWindow(cb) ==
    /\ Alive
    /\ cb \in callbacks
    /\ callbacks' = callbacks \ {cb}
    /\ IF ~url_parse_ok(cb.url)
       THEN /\ \E abort \in BOOLEAN : phase' = IF abort THEN "crashed" ELSE phase
            /\ cb_ops' = [w |-> cb.label, ops |-> <<"panic">>]
            /\ UNCHANGED windows
       ELSE /\ UNCHANGED phase
            /\ \E built \in BOOLEAN :
                IF built /\ cb.label \notin DOMAIN windows
                THEN /\ \E oks \in [1..Len(new_window_ops) -> Outcomes] :
                            windows' = ApplyOps((cb.label :> build_window(cb.url)) @@ windows,
                                                cb.label, new_window_ops, oks)
                     /\ cb_ops' = [w |-> cb.label, ops |-> <<"build">> \o new_window_ops]
                ELSE /\ UNCHANGED windows
                     /\ cb_ops' = [w |-> cb.label, ops |-> <<"build">>]
    /\ UNCHANGED <<cfg, ops_can_fail, tray_shown, exit_code, args, found, WINDOW_COUNTER, showTask, navTask,
                   hideTasks, launches, issued, closes, prevented>>

CallbackStep == \E cb \in callbacks : CallbackWindow(cb)

----------------------------------------------------------------------------
(* .on_window_event(move |_window, _event| { ... })                        *)

\* A handler that hides instead of exiting whatever hide_on_close says.
hides_on_close_always == TRUE
hides_on_close == cfg.hide_on_close

\* A hide task that starts at minimize on every platform.
hide_task_entry_minimize == "minimize"

\* A handler that forgets api.prevent_close().
prevent_close_never(count) == count

\* api.prevent_close(): one more native close suppressed.
prevent_close(count) == count + 1

\* The first step of the hide task on each platform.
hide_task_entry == IF cfg.platform = "windows" THEN "minimize" ELSE "start"

CloseRequested(w) ==
    /\ phase = "running"
    /\ w \in DOMAIN windows
    /\ closes < MaxCloses
    /\ closes' = closes + 1
    /\ IF hides_on_close
       THEN /\ hideTasks' = Append(hideTasks, [w |-> w, pc |-> hide_task_entry])
            /\ prevented' = prevent_close(prevented)
            /\ UNCHANGED <<phase, exit_code>>
       ELSE \* std::process::exit(0)
            /\ phase' = "exited"
            /\ exit_code' = Some(0)
            /\ UNCHANGED <<hideTasks, prevented>>
    /\ UNCHANGED <<cfg, ops_can_fail, tray_shown, args, found, WINDOW_COUNTER, windows, showTask, navTask,
                   callbacks, cb_ops, launches, issued>>

CloseRequest == \E w \in DOMAIN windows : CloseRequested(w)

\* if window.is_fullscreen().unwrap_or(false) { set_fullscreen(false).unwrap(); .. }
HideTaskStart(i) ==
    /\ phase = "running"
    /\ i \in 1..Len(hideTasks)
    /\ hideTasks[i].pc = "start"
    /\ LET w == hideTasks[i].w
           after == IF cfg.platform = "macos" THEN "hide" ELSE "minimize"
       IN  \E readOk, ok \in Outcomes :
            IF readOk /\ windows[w].fullscreen
            THEN /\ windows' = WindowOp(windows, w, "fullscreen", FALSE, ok)
                 /\ hideTasks' = [hideTasks EXCEPT ![i].pc =
                        IF ~ok THEN "panicked"
                        ELSE IF cfg.platform = "macos" THEN "settle" ELSE "refocus"]
            ELSE /\ UNCHANGED windows
                 /\ hideTasks' = [hideTasks EXCEPT ![i].pc = after]
    /\ UNCHANGED <<cfg, ops_can_fail, tray_shown, phase, exit_code, args, found, WINDOW_COUNTER, showTask,
                   navTask, callbacks, cb_ops, launches, issued, closes, prevented>>

\* macOS: tokio::time::sleep(Duration::from_millis(900))
HideTaskSettle(i) ==
    /\ phase = "running"
    /\ i \in 1..Len(hideTasks)
    /\ hideTasks[i].pc = "settle"
    /\ hideTasks' = [hideTasks EXCEPT ![i].pc = "hide"]
    /\ UNCHANGED <<cfg, ops_can_fail, tray_shown, phase, exit_code, args, found, WINDOW_COUNTER, windows,
                   showTask, navTask, callbacks, cb_ops, launches, issued, closes, prevented>>

\* Linux: let _ = window.set_focus()
HideTaskRefocus(i) ==
    /\ phase = "running"
    /\ i \in 1..Len(hideTasks)
    /\ hideTasks[i].pc = "refocus"
    /\ \E ok \in Outcomes :
        windows' = WindowOp(windows, hideTasks[i].w, "focused", TRUE, ok)
    /\ hideTasks' = [hideTasks EXCEPT ![i].pc = "minimize"]
    /\ UNCHANGED <<cfg, ops_can_fail, tray_shown, phase, exit_code, args, found, WINDOW_COUNTER, showTask,
                   navTask, callbacks, cb_ops, launches, issued, closes, prevented>>

\* #[cfg(not(target_os = "macos"))] window.minimize().unwrap()
HideTaskMinimize(i) ==
    /\ phase = "running"
    /\ i \in 1..Len(hideTasks)
    /\ hideTasks[i].pc = "minimize"
    /\ \E ok \in Outcomes :
        /\ windows' = WindowOp(windows, hideTasks[i].w, "minimized", TRUE, ok)
        /\ hideTasks' = [hideTasks EXCEPT ![i].pc = IF ok THEN "hide" ELSE "panicked"]
    /\ UNCHANGED <<cfg, ops_can_fail, tray_shown, phase, exit_code, args, found, WINDOW_COUNTER, showTask,
                   navTask, callbacks, cb_ops, launches, issued, closes, prevented>>

\* window.hide().unwrap()
HideTaskHide(i) ==
    /\ phase = "running"
    /\ i \in 1..Len(hideTasks)
    /\ hideTasks[i].pc = "hide"
    /\ \E ok \in Outcomes :
        /\ windows' = WindowOp(windows, hideTasks[i].w, "visible", FALSE, ok)
        /\ hideTasks' = [hideTasks EXCEPT ![i].pc = IF ok THEN "done" ELSE "panicked"]
    /\ UNCHANGED <<cfg, ops_can_fail, tray_shown, phase, exit_code, args, found, WINDOW_COUNTER, showTask,
                   navTask, callbacks, cb_ops, launches, issued, closes, prevented>>

\* One step of the i-th hide task.
HideTask(i) ==
    \/ HideTaskStart(i)
    \/ HideTaskSettle(i)
    \/ HideTaskRefocus(i)
    \/ HideTaskMinimize(i)
    \/ HideTaskHide(i)

HideTaskStep == \E i \in 1..Len(hideTasks) : HideTask(i)

----------------------------------------------------------------------------
(* .run(|_app, _event| { ... }) and the tray.                              *)

has_visible_windows == \E w \in DOMAIN windows : windows[w].visible /\ ~windows[w].minimized

\* RunEvent::Reopen on macOS.
Reopen ==
    /\ phase = "running"
    /\ cfg.platform = "macos"
    /\ IF ~has_visible_windows /\ get_webview_window(windows) # None
       THEN \E oks \in [1..2 -> Outcomes] :
                windows' = ApplyOps(windows, get_webview_window(windows)[1],
                                    <<"show", "focus">>, oks)
       ELSE UNCHANGED windows
    /\ UNCHANGED <<cfg, ops_can_fail, tray_shown, phase, exit_code, args, found, WINDOW_COUNTER, showTask,
                   navTask, hideTasks, callbacks, cb_ops, launches, issued, closes, prevented>>

\* The tray's "show" entry (app::setup::set_system_tray), when the tray exists.
TrayShow ==
    /\ phase = "running"
    /\ cfg.show_system_tray
    /\ windows' = ApplyOps(windows, PRIMARY, <<"show", "focus">>, <<TRUE, TRUE>>)
    /\ tray_shown' = TRUE
    /\ UNCHANGED <<cfg, ops_can_fail, phase, exit_code, args, found, WINDOW_COUNTER,
                   showTask, navTask, hideTasks, callbacks, cb_ops, launches, issued,
                   closes, prevented>>

----------------------------------------------------------------------------
Next ==
    \/ Setup
    \/ ShowTaskShow
    \/ ShowTaskFullscreen
    \/ ShowTaskFocus
    \/ NavTaskEval
    \/ SecondInstance
    \/ CallbackStep
    \/ CloseRequest
    \/ HideTaskStep
    \/ Reopen
    \/ TrayShow

Spec == Init /\ [][Next]_vars

\* The program when the operations on its windows succeed, with the
\* scheduling the runtimes give.  Launches, close requests, dock and tray
\* events may or may not come.
InitFair == Init /\ ~ops_can_fail

\* The setup closure runs and the runtime runs the show task it spawned.
FairShow == InitFair /\ [][Next]_vars /\ WF_vars(Setup) /\ WF_vars(ShowTaskShow)

\* The runtime runs every hide task that was spawned.
FairHide == InitFair /\ [][Next]_vars /\ \A i \in 1..MaxCloses : WF_vars(HideTask(i))

----------------------------------------------------------------------------
(* The matcher on its own: every config_url and argument list of the pools. *)

MatcherConfig ==
    [platform |-> "linux", hide_on_close |-> FALSE, show_system_tray |-> FALSE,
     start_to_tray |-> FALSE, multi_instance |-> FALSE, fullscreen |-> FALSE,
     url |-> <<>>, width |-> 2, height |-> 1]

InitMatcher ==
    /\ \E u \in CfgPool : cfg = [MatcherConfig EXCEPT !.url = u]
    /\ args \in MatcherArgs
    /\ ops_can_fail = FALSE
    /\ InitRest

\* if let Some(url) = extract_url_arg(&launch_args, &config_url_for_launch)
ApplyMatcher ==
    /\ phase = "starting"
    /\ found' = extract_url_arg(args, cfg.url)
    /\ phase' = "matched"
    /\ UNCHANGED <<cfg, ops_can_fail, tray_shown, exit_code, args, WINDOW_COUNTER, windows, showTask, navTask,
                   hideTasks, callbacks, cb_ops, launches, issued, closes, prevented>>

SpecMatcher == InitMatcher /\ [][ApplyMatcher]_vars

----------------------------------------------------------------------------
(* The launches alone: setup with its two tasks and the single-instance     *)
(* callback, for launch URLs with quotes and backslashes after the host.    *)

PathChars == {QUOTE, BACKSLASH, "b"}

\* The strings of at most n path characters.
RECURSIVE PathsOf(_)
PathsOf(n) ==
    IF n = 0 THEN {<<>>}
    ELSE LET shorter == PathsOf(n - 1)
         IN  shorter \cup {q \o <<c>> : q \in shorter, c \in PathChars}

NavUrls == {UrlA \o <<"/">> \o q : q \in PathsOf(MaxPathLen)}

InitLaunchUrl ==
    /\ cfg \in {c \in Configs :
                    c.url = UrlA \o <<"/">> /\ c.hide_on_close /\ ~c.multi_instance}
    /\ ops_can_fail \in BOOLEAN
    /\ args \in {<<EXE>>} \cup {<<EXE, u>> : u \in NavUrls}
    /\ InitRest

NextLaunchUrl ==
    \/ Setup
    \/ ShowTaskShow
    \/ ShowTaskFullscreen
    \/ ShowTaskFocus
    \/ NavTaskEval
    \/ SecondInstance
    \/ CallbackStep

SpecLaunchUrl == InitLaunchUrl /\ [][NextLaunchUrl]_vars

----------------------------------------------------------------------------
(* Properties.                                                             *)

Schemes == {HTTPS, HTTP}

\* arg is scheme, then exactly h, then nothing or a '/' and anything.
IsUrlOfHost(arg, h) ==
    \E scheme \in Schemes :
        /\ Len(arg) >= Len(scheme) + Len(h)
        /\ SubSeq(arg, 1, Len(scheme)) = scheme
        /\ SubSeq(arg, Len(scheme) + 1, Len(scheme) + Len(h)) = h
        /\ \A i \in 1..Len(h) : h[i] # "/"
        /\ Len(arg) > Len(scheme) + Len(h) => arg[Len(scheme) + Len(h) + 1] = "/"

Secondaries == DOMAIN windows \ {PRIMARY}
Label1 == PRIMARY \o <<"-", "1">>
Label2 == PRIMARY \o <<"-", "2">>
Range(f) == {f[i] : i \in DOMAIN f}

\* C1: extract_url_arg returns the first element at index >= 1 that starts
\* with "https://" or "http://" and whose host equals allowed_host, none when
\* there is no such element, and the result does not depend on element 0.
C1_FirstAllowedUrl ==
    phase = "matched" =>
        LET h == allowed_host_of(cfg.url)
            hits == {i \in 2..Len(args) : IsUrlOfHost(args[i], h)}
        IN  /\ hits = {} => found = None
            /\ hits # {} => found = Some(args[Min(hits)])
            /\ Len(args) >= 1 =>
                \A e0 \in LongUrls \cup {EXE, UrlA, UrlNoHost} :
                    extract_url_arg([args EXCEPT ![1] = e0], cfg.url) = found

\* Element 0 is a matching URL, the next argument does not match, and the
\* one after it is returned.
C1_Witness ==
    /\ phase = "matched"
    /\ Len(args) = 3
    /\ IsUrlOfHost(args[1], allowed_host_of(cfg.url))
    /\ ~IsUrlOfHost(args[2], allowed_host_of(cfg.url))
    /\ found = Some(args[3])
    /\ args[3] # args[1]

\* C2: with hide_on_close = false a close request on any window ends the
\* process with exit code 0; it spawns no hide task and changes no window,
\* and nothing happens after the exit.
C2_CloseExits ==
    [][/\ (~cfg.hide_on_close /\ closes' # closes) =>
            /\ phase' = "exited"
            /\ exit_code' = Some(0)
            /\ windows' = windows
            /\ hideTasks' = <<>>
            /\ prevented' = 0
       /\ phase = "exited" => vars' = vars]_vars

C2_Witness ==
    /\ ~cfg.hide_on_close
    /\ closes = 1
    /\ phase = "exited"
    /\ exit_code = Some(0)
    /\ Secondaries # {}
    /\ \A w \in DOMAIN windows : windows[w].visible /\ ~windows[w].minimized

\* C3: with hide_on_close = true a close request never ends the process
\* and every close request calls prevent_close, on every platform.
C3_CloseSuppressed ==
    [][cfg.hide_on_close =>
            /\ closes' # closes =>
                    /\ phase' = "running"
                    /\ prevented' = prevented + 1
                    /\ Len(hideTasks') = Len(hideTasks) + 1
            /\ prevented' = closes'
            /\ exit_code' = None
            /\ phase' # "exited"]_vars

C3_Witness ==
    /\ cfg.hide_on_close
    /\ cfg.platform = "macos"
    /\ closes = 1
    /\ prevented = 1
    /\ phase = "running"
    /\ \E i \in 1..Len(hideTasks) :
        /\ hideTasks[i].pc = "done"
        /\ hideTasks[i].w # PRIMARY
        /\ ~windows[hideTasks[i].w].visible

\* C4: the labels generated for consecutive launches with a matching URL are
\* pairwise distinct, their suffixes strictly increase from 1, none equals
\* the main window's label, and only setup creates a window under that label.
C4_DistinctLabels ==
    /\ \A i, j \in 1..Len(issued) :
        i < j => /\ issued[i] < issued[j]
                 /\ window_label(issued[i]) # window_label(issued[j])
    /\ Len(issued) >= 1 => issued[1] = 1
    /\ \A i \in 1..Len(issued) : window_label(issued[i]) # PRIMARY
    /\ \A cb \in callbacks : \E i \in 1..Len(issued) : cb.label = window_label(issued[i])
    /\ \A w \in Secondaries : \E i \in 1..Len(issued) : w = window_label(issued[i])
    /\ PRIMARY \in DOMAIN windows => phase # "starting"

C4_Witness ==
    /\ issued = <<1, 2>>
    /\ {PRIMARY, Label1, Label2} \subseteq DOMAIN windows

\* C5: the window counter never decreases and a suffix once handed out is
\* never handed out again, whatever happens in between and however the
\* callbacks interleave.
C5_CounterMonotonic ==
    [][/\ WINDOW_COUNTER' >= WINDOW_COUNTER
       /\ Len(issued') >= Len(issued)
       /\ SubSeq(issued', 1, Len(issued)) = issued
       /\ \A i \in (Len(issued) + 1)..Len(issued') :
            /\ issued'[i] \notin Range(issued)
            /\ issued'[i] < WINDOW_COUNTER']_vars

\* The second callback has built its window while the first is in flight,
\* after a window was hidden on a close request.
C5_Witness ==
    /\ issued = <<1, 2>>
    /\ Label2 \in DOMAIN windows
    /\ \E cb \in callbacks : cb.label = Label1
    /\ \E i \in 1..Len(hideTasks) : hideTasks[i].pc = "done"

\* C6: a second-instance launch without a matching URL un-minimizes, shows
\* and focuses the main window, in that order, when it exists and does
\* nothing when it does not; it creates no window, leaves the counter and
\* every secondary window alone and does not end the process.
NoUrlLaunch == ~cfg.multi_instance /\ launches' # launches /\ issued' = issued

C6_RefocusOnly ==
    [][NoUrlLaunch =>
        /\ DOMAIN windows' = DOMAIN windows
        /\ WINDOW_COUNTER' = WINDOW_COUNTER
        /\ callbacks' = callbacks
        /\ phase' = phase
        /\ \A w \in Secondaries : windows'[w] = windows[w]
        /\ IF PRIMARY \in DOMAIN windows
           THEN /\ cb_ops' = [w |-> PRIMARY, ops |-> <<"unminimize", "show", "focus">>]
                /\ \E m \in {FALSE, windows[PRIMARY].minimized},
                      v \in {TRUE, windows[PRIMARY].visible},
                      f \in {TRUE, windows[PRIMARY].focused} :
                        windows'[PRIMARY] = [windows[PRIMARY] EXCEPT
                            !.minimized = m, !.visible = v, !.focused = f]
                /\ ~ops_can_fail =>
                        /\ ~windows'[PRIMARY].minimized
                        /\ windows'[PRIMARY].visible
                        /\ windows'[PRIMARY].focused
           ELSE /\ windows' = windows
                /\ cb_ops' = NoOps]_vars

\* The main window, minimized and hidden by a close request, is back after
\* the launch, next to a secondary window.
C6_Witness ==
    /\ cfg.platform = "linux"
    /\ ~ops_can_fail
    /\ hideTasks = <<[w |-> PRIMARY, pc |-> "done"]>>
    /\ cb_ops = [w |-> PRIMARY, ops |-> refocus_ops]
    /\ windows[PRIMARY].visible /\ ~windows[PRIMARY].minimized
    /\ Secondaries # {}
    /\ showTask = "none"

\* C7: when a launch carries a matching URL and the window is created, one
\* window is added under the freshly allocated label, at the matched URL and
\* with the configured size, and it is shown and then focused; no window
\* that existed before, the main window included, is touched.
UrlLaunch == ~cfg.multi_instance /\ launches' # launches /\ issued' # issued
WindowCreated == callbacks' # callbacks /\ DOMAIN windows' # DOMAIN windows

C7_NewWindow ==
    [][/\ UrlLaunch =>
            /\ windows' = windows
            /\ \E cb \in callbacks' \ callbacks :
                /\ callbacks' = callbacks \cup {cb}
                /\ cb.label = window_label(issued'[Len(issued')])
                /\ cb.label \notin DOMAIN windows
                /\ IsUrlOfHost(cb.url, allowed_host_of(cfg.url))
                /\ \E a \in SecondArgs : \E i \in 2..Len(a) : cb.url = a[i]
       /\ WindowCreated =>
            \E cb \in callbacks :
                /\ callbacks' = callbacks \ {cb}
                /\ cb.label \notin DOMAIN windows
                /\ DOMAIN windows' = DOMAIN windows \cup {cb.label}
                /\ \A w \in DOMAIN windows : windows'[w] = windows[w]
                /\ windows'[cb.label].url = cb.url
                /\ windows'[cb.label].size = <<cfg.width, cfg.height>>
                /\ cb_ops' = [w |-> cb.label, ops |-> <<"build", "show", "focus">>]
                /\ windows'[cb.label].visible
                /\ ~ops_can_fail => windows'[cb.label].focused]_vars

\* A secondary window of the configured size, shown and focused, while the
\* main window, of another size, is still hidden in the tray.
C7_Witness ==
    /\ ~ops_can_fail
    /\ Label1 \in DOMAIN windows
    /\ PRIMARY \in DOMAIN windows
    /\ windows[Label1] = [visible |-> TRUE, minimized |-> FALSE, fullscreen |-> FALSE,
                          focused |-> TRUE, url |-> UrlAPath, size |-> <<2, 1>>]
    /\ windows[PRIMARY].size # windows[Label1].size
    /\ ~windows[PRIMARY].visible /\ ~windows[PRIMARY].focused
    /\ start_to_tray

\* C8: with multi_instance = true the single-instance plugin is not
\* installed: a launch of another process creates no window, leaves the
\* counter alone and does not show, focus or un-minimize the main window.
C8_NoCoordinator ==
    [][cfg.multi_instance =>
        /\ launches' # launches =>
                /\ windows' = windows
                /\ cb_ops' = cb_ops
                /\ phase' = phase
        /\ WINDOW_COUNTER' = 1
        /\ issued' = <<>>
        /\ callbacks' = {}
        /\ cb_ops' = NoOps
        /\ DOMAIN windows' \subseteq {PRIMARY}]_vars

\* Launches of other processes have happened and the main window is still
\* minimized and hidden.
C8_Witness ==
    /\ cfg.multi_instance
    /\ launches = MaxLaunches
    /\ phase = "running"
    /\ PRIMARY \in DOMAIN windows
    /\ ~windows[PRIMARY].visible /\ windows[PRIMARY].minimized
    /\ ~tray_shown

\* C9 as stated: with start_to_tray in effect the main window is not visible
\* before it is summoned from the tray, whatever else happens; with the tray
\* disabled the flag has no effect.
C9_HiddenUntilTray ==
    /\ (start_to_tray /\ ~tray_shown /\ PRIMARY \in DOMAIN windows) =>
            ~windows[PRIMARY].visible
    /\ (cfg.start_to_tray /\ ~cfg.show_system_tray /\ phase = "running") =>
            showTask # "none"

\* C9 amended: with start_to_tray in effect the main window is built hidden
\* and setup spawns no show task; the window becomes visible only from the
\* tray, on a second-instance launch without a matching URL or on a macOS
\* dock reactivation.  With the tray disabled the flag has no effect: setup
\* spawns the show task as in the normal startup path.
C9_HiddenAtStartup ==
    [][/\ start_to_tray => showTask' = "none"
       /\ (PRIMARY \notin DOMAIN windows /\ PRIMARY \in DOMAIN windows') =>
            /\ ~windows'[PRIMARY].visible
            /\ (phase' = "running" /\ ~start_to_tray) => showTask' = "sleep"
       /\ (/\ start_to_tray
           /\ PRIMARY \in DOMAIN windows
           /\ ~windows[PRIMARY].visible
           /\ windows'[PRIMARY].visible) =>
            \/ TrayShow
            \/ NoUrlLaunch /\ SecondInstance
            \/ Reopen]_vars

\* The main window started in the tray and was shown by a launch, not from
\* the tray.
C9_Witness ==
    /\ start_to_tray
    /\ ~tray_shown
    /\ cfg.platform # "macos"
    /\ showTask = "none"
    /\ PRIMARY \in DOMAIN windows
    /\ windows[PRIMARY].visible
    /\ cb_ops = [w |-> PRIMARY, ops |-> refocus_ops]

\* C10: for a config_url made of "https://" or "http://", a host and then
\* '/' and anything, the allowed host is exactly that host; for a config_url
\* with neither prefix it is the empty string.
C10_AllowedHost ==
    LET u == cfg.url
    IN  /\ \A scheme \in Schemes : \A n \in 0..Len(u) :
            LET h == SubSeq(u, Len(scheme) + 1, Len(scheme) + n)
            IN  (/\ Len(u) > Len(scheme) + n
                 /\ SubSeq(u, 1, Len(scheme)) = scheme
                 /\ \A i \in 1..Len(h) : h[i] # "/"
                 /\ u[Len(scheme) + n + 1] = "/")
                => allowed_host_of(u) = h
        /\ (\A scheme \in Schemes : ~starts_with(u, scheme)) => allowed_host_of(u) = <<>>

\* A configured URL with a path, whose host matched an argument.
C10_Witness ==
    /\ cfg.url = UrlAPath
    /\ phase = "matched"
    /\ found = Some(UrlA)

\* C11: when the allowed host is the empty string, an argument at index >= 1
\* that is "https://" or "http://" followed by nothing or by a '/' and
\* anything matches, and the first such argument is returned; an argument
\* with a non-empty host is rejected.
HasEmptyHost(arg) ==
    \E scheme \in Schemes :
        /\ starts_with(arg, scheme)
        /\ Len(arg) > Len(scheme) => arg[Len(scheme) + 1] = "/"

C11_EmptyHostMatches ==
    (phase = "matched" /\ allowed_host_of(cfg.url) = <<>>) =>
        LET hits == {i \in 2..Len(args) : HasEmptyHost(args[i])}
        IN  /\ hits # {} => found = Some(args[Min(hits)])
            /\ hits = {} => found = None
            /\ \A i \in 2..Len(args) :
                    (~HasEmptyHost(args[i]) /\ found # None) => found[1] # args[i]

\* The configured URL has no scheme, the first argument has a host and is
\* passed over, and the host-less "http:///a" after it is returned.
C11_Witness ==
    /\ phase = "matched"
    /\ cfg.url = <<"a">>
    /\ Len(args) = 3
    /\ args[2] = UrlA
    /\ args[3] = UrlNoHostPath
    /\ found = Some(UrlNoHostPath)

\* C12: when the initial arguments hold a matching URL, setup spawns the
\* navigation task and, once its script has been evaluated, the main window
\* is at exactly that URL; nothing else navigates the main window, a
\* second-instance launch with or without a URL in particular.
NavTaskRuns == navTask = "sleep" /\ navTask' = "done"

C12_NavigatedOnInitialLaunchOnly ==
    [][/\ (phase = "starting" /\ phase' = "running" /\ found' # None) =>
            navTask' = "sleep"
       /\ (NavTaskRuns /\ ~ops_can_fail) => windows'[PRIMARY].url = found[1]
       /\ (/\ PRIMARY \in DOMAIN windows
           /\ windows'[PRIMARY].url # windows[PRIMARY].url) => NavTaskRuns]_vars

\* C13: every URL the matcher returns parses: it has a scheme and a host.
C13_MatchedUrlParses ==
    (phase = "matched" /\ found # None) => url_parse_ok(found[1])

\* C14: when a callback that carries a URL creates no window, whether the
\* URL did not parse or the window could not be built, nothing is surfaced:
\* the callback does not panic, the process goes on and no window changes.
CallbackEnds == callbacks' # callbacks /\ callbacks' \subseteq callbacks

C14_CreationFailureSwallowed ==
    [][(CallbackEnds /\ DOMAIN windows' = DOMAIN windows) =>
            /\ windows' = windows
            /\ phase' = phase
            /\ cb_ops'.ops # <<"panic">>]_vars

\* C15: in the navigation script of a matched launch URL no quote closes the
\* string literal before the last character of the script.
C15_LiteralClosedAtEnd ==
    (phase # "starting" /\ found # None) =>
        LET script == nav_script(found[1])
        IN  literal_end(script, Len(SCRIPT_HEAD) + 2) \notin 1..(Len(script) - 1)

\* C16: the state in which the deferred tasks leave a window does not depend
\* on how they interleave.  When every task has finished, a window whose
\* close request was handled with hide_on_close, and which no later event
\* showed, is as the hide task alone leaves it: hidden and minimized, and on
\* Linux out of fullscreen (macOS, with its dock reactivation, is left aside).
Quiescent ==
    /\ showTask \in {"none", "done"}
    /\ navTask \in {"none", "done"}
    /\ callbacks = {}
    /\ \A i \in 1..Len(hideTasks) : hideTasks[i].pc = "done"

C16_InterleavingIndependent ==
    (phase = "running" /\ ~ops_can_fail /\ Quiescent /\ cfg.platform # "macos") =>
        \A i \in 1..Len(hideTasks) :
            LET w == hideTasks[i].w
            IN  (w = PRIMARY => launches = 0 /\ ~tray_shown) =>
                    /\ ~windows[w].visible
                    /\ windows[w].minimized
                    /\ cfg.platform = "linux" => ~windows[w].fullscreen

\* C19: a window operation that fails inside a deferred task does not stop
\* the task: no task ends on the failure with steps left undone, and the
\* process keeps running; a failure of the tray or the shortcut during setup
\* aborts startup before any show task exists.
C19_TaskFailuresSwallowed ==
    [][/\ showTask' # "panicked"
       /\ \A i \in 1..Len(hideTasks') : hideTasks'[i].pc # "panicked"
       /\ (showTask' # showTask \/ hideTasks' # hideTasks \/ navTask' # navTask) =>
            phase' \in {"running", "crashed"}
       /\ (PRIMARY \notin DOMAIN windows /\ PRIMARY \in DOMAIN windows'
                /\ phase' = "crashed") =>
            showTask' = "none" /\ ~windows'[PRIMARY].visible]_vars

Ended == phase \in {"exited", "crashed"}

\* C17: without start_to_tray, setup leaves the main window hidden with the
\* show task in its delay; unless the process ends first the window becomes
\* visible.  The task shows the window when the delay is over, with setup
\* complete; on Linux with fullscreen requested it then enters fullscreen
\* and then focuses, on Linux without fullscreen it waits and then focuses,
\* and on the other platforms the task ends with the show.
ShowTaskOrder ==
    /\ (PRIMARY \notin DOMAIN windows /\ PRIMARY \in DOMAIN windows') =>
            /\ ~windows'[PRIMARY].visible
            /\ ((phase' = "running" /\ ~start_to_tray) => showTask' = "sleep")
    /\ (showTask' # showTask /\ showTask # "none") =>
            /\ phase = "running"
            /\ CASE showTask = "sleep" ->
                        /\ windows'[PRIMARY].visible
                        /\ showTask' =
                            IF cfg.platform = "linux"
                            THEN (IF cfg.fullscreen THEN "fullscreen" ELSE "focus")
                            ELSE "done"
                   [] showTask = "fullscreen" ->
                        /\ cfg.platform = "linux" /\ cfg.fullscreen
                        /\ windows'[PRIMARY].fullscreen
                        /\ showTask' = "focus"
                   [] showTask = "focus" ->
                        /\ cfg.platform = "linux"
                        /\ windows'[PRIMARY].focused
                        /\ showTask' = "done"
                   [] OTHER -> FALSE

HideTaskOrder ==
    \A i \in 1..Len(hideTasks') :
        IF i > Len(hideTasks)
        THEN /\ cfg.hide_on_close
             /\ hideTasks'[i].pc = IF cfg.platform = "windows" THEN "minimize" ELSE "start"
        ELSE hideTasks'[i] # hideTasks[i] =>
                LET w == hideTasks[i].w
                    q == hideTasks'[i].pc
                IN  /\ hideTasks'[i].w = w
                    /\ CASE hideTasks[i].pc = "start" ->
                                IF windows[w].fullscreen
                                THEN /\ ~windows'[w].fullscreen
                                     /\ q = IF cfg.platform = "macos"
                                            THEN "settle" ELSE "refocus"
                                ELSE /\ windows' = windows
                                     /\ q = IF cfg.platform = "macos"
                                            THEN "hide" ELSE "minimize"
                           [] hideTasks[i].pc = "settle" ->
                                /\ cfg.platform = "macos"
                                /\ windows' = windows
                                /\ q = "hide"
                           [] hideTasks[i].pc = "refocus" ->
                                /\ cfg.platform = "linux"
                                /\ windows'[w].focused
                                /\ q = "minimize"
                           [] hideTasks[i].pc = "minimize" ->
                                /\ cfg.platform # "macos"
                                /\ windows'[w].minimized
                                /\ q = "hide"
                           [] hideTasks[i].pc = "hide" ->
                                /\ ~windows'[w].visible
                                /\ q = "done"
                           [] OTHER -> FALSE

HiddenByClose(w) ==
    /\ ~windows[w].visible
    /\ \E i \in 1..Len(hideTasks) : hideTasks[i].w = w /\ hideTasks[i].pc = "done"

C20_HiddenSecondaryStaysHidden ==
    [][cfg.hide_on_close =>
        /\ \A w \in Secondaries :
                HiddenByClose(w) =>
                    /\ w \in DOMAIN windows'
                    /\ windows'[w] = windows[w]
        /\ \A w \in DOMAIN windows' \ DOMAIN windows :
                w # PRIMARY => \E cb \in callbacks : cb.label = w /\ cb \notin callbacks'
        /\ (cb_ops' # cb_ops /\ cb_ops'.ops = refocus_ops) => cb_ops'.w = PRIMARY]_vars

\* A secondary window was closed and stays hidden while a later launch
\* without a URL has brought the main window back.
C20_Witness ==
    /\ cfg.hide_on_close
    /\ hideTasks = <<[w |-> Label1, pc |-> "done"]>>
    /\ ~windows[Label1].visible
    /\ cb_ops = [w |-> PRIMARY, ops |-> refocus_ops]
    /\ windows[PRIMARY].visible /\ windows[PRIMARY].focused
    /\ showTask = "none"

====
